---- MODULE Spec2Model ----
(***************************************************************************)
(* A model of app.py, the Streamlit diary: the storage file and            *)
(* load_entries / save_entries, the form's Save Entry handler, and the     *)
(* sidebar's search / date filter.  A Python str is a sequence of          *)
(* one-character strings, so that split, strip, lower, `in`, strftime and  *)
(* strptime work on characters as the code's do.                           *)
(***************************************************************************)
EXTENDS Integers, Sequences, FiniteSets, TLC

VARIABLES
    file,             \* diary_entries.json: absent, unparseable text, or a JSON document
    images,           \* the files under uploaded_images/: path -> bytes
    pc,               \* where the script run stands
    error,            \* the exception that ended the run, or "none"
    entries,          \* the script's global `entries`
    selected_date, formatted_date, mood_text, title, username,
    uploaded_image, diary_text, tags_input, tags_list, button,
    image_path,
    search_query, start_date, end_date,
    filtered_entries,
    sidebar           \* the entries whose preview button the sidebar loop has drawn

store   == <<file, images>>
form    == <<selected_date, formatted_date, mood_text, title, username,
             uploaded_image, diary_text, tags_input, tags_list, button>>
filter  == <<search_query, start_date, end_date, filtered_entries, sidebar>>
vars    == <<file, images, pc, error, entries, form, image_path, filter>>

(***************************************************************************)
(* Bounds of the model.                                                    *)
(***************************************************************************)
MaxStored   == 1   \* entries in the storage file the session starts with
MaxEntries  == 2   \* Save Entry is offered while the store holds fewer entries
MaxTagInput == 3   \* characters of a tags input (tag-parsing specification)
MaxQuery    == 2   \* characters of a search query (search specification)
MaxWord     == 2   \* characters of a title or of a tag (search specification)

(***************************************************************************)
(* Strings.                                                                *)
(***************************************************************************)
\* The characters str.strip() removes (ASCII).
Whitespace == {" ", "\t", "\n", "\r", "\f"}

UpperLetters ==
    <<"A", "B", "C", "D", "E", "F", "G", "H", "I", "J", "K", "L", "M",
      "N", "O", "P", "Q", "R", "S", "T", "U", "V", "W", "X", "Y", "Z">>
LowerLetters ==
    <<"a", "b", "c", "d", "e", "f", "g", "h", "i", "j", "k", "l", "m",
      "n", "o", "p", "q", "r", "s", "t", "u", "v", "w", "x", "y", "z">>

\* str.lower() on one character (ASCII).
LowerChar(c) ==
    IF \E n \in 1..Len(UpperLetters) : UpperLetters[n] = c
    THEN LowerLetters[CHOOSE n \in 1..Len(UpperLetters) : UpperLetters[n] = c]
    ELSE c

\* str.lower()
Lower(s) == [i \in 1..Len(s) |-> LowerChar(s[i])]

\* `a in b` for two strs: a is a contiguous piece of b.
Contains(b, a) ==
    \E k \in 0..(Len(b) - Len(a)) : SubSeq(b, k + 1, k + Len(a)) = a

\* A strip that trims the front only (str.lstrip).
RECURSIVE StripLeading(_)
StripLeading(s) ==
    IF s # <<>> /\ Head(s) \in Whitespace THEN StripLeading(Tail(s)) ELSE s

\* str.strip(): leading and trailing whitespace removed.
RECURSIVE LStrip(_)
LStrip(s) ==
    IF s # <<>> /\ Head(s) \in Whitespace THEN LStrip(Tail(s)) ELSE s

RECURSIVE RStrip(_)
RStrip(s) ==
    IF s # <<>> /\ s[Len(s)] \in Whitespace
    THEN RStrip(SubSeq(s, 1, Len(s) - 1))
    ELSE s

Strip(s) == RStrip(LStrip(s))

\* str.split(","): the pieces between the commas, empty pieces kept.
RECURSIVE Split(_)
Split(s) ==
    IF \A i \in 1..Len(s) : s[i] # ","
    THEN <<s>>
    ELSE LET k == CHOOSE i \in 1..Len(s) :
                      s[i] = "," /\ \A j \in 1..(i - 1) : s[j] # ","
         IN  <<SubSeq(s, 1, k - 1)>> \o Split(SubSeq(s, k + 1, Len(s)))

\* reversed(seq)
Reversed(seq) == [i \in 1..Len(seq) |-> seq[Len(seq) + 1 - i]]

\* tags_list = [tag.strip() for tag in tags_input.split(",") if tag.strip()]
IsTruthy(s) == s # <<>>
TagKept(tag) == IsTruthy(Strip(tag))
ParseTags(input) ==
    LET kept == SelectSeq(Split(input), TagKept)
    IN  [i \in 1..Len(kept) |-> Strip(kept[i])]

(***************************************************************************)
(* Dates: datetime.date, strftime("%Y-%m-%d (%A)") and strptime.           *)
(***************************************************************************)
Date(y, m, d) == [year |-> y, month |-> m, day |-> d]

IsLeap(y) == y % 4 = 0 /\ (y % 100 # 0 \/ y % 400 = 0)

DaysInMonth(y, m) ==
    IF m = 2 THEN (IF IsLeap(y) THEN 29 ELSE 28)
    ELSE IF m \in {4, 6, 9, 11} THEN 30 ELSE 31

RECURSIVE DaysBeforeMonth(_, _)
DaysBeforeMonth(y, m) ==
    IF m = 1 THEN 0 ELSE DaysBeforeMonth(y, m - 1) + DaysInMonth(y, m - 1)

DaysBeforeYear(y) ==
    LET p == y - 1 IN p * 365 + p \div 4 - p \div 100 + p \div 400

\* date.toordinal(): the order dates compare in.
Ordinal(dt) == DaysBeforeYear(dt.year) + DaysBeforeMonth(dt.year, dt.month) + dt.day

\* date.weekday(): Monday is 0.
Weekday(dt) == (Ordinal(dt) + 6) % 7

WeekdayNames ==
    <<<<"M", "o", "n", "d", "a", "y">>,
      <<"T", "u", "e", "s", "d", "a", "y">>,
      <<"W", "e", "d", "n", "e", "s", "d", "a", "y">>,
      <<"T", "h", "u", "r", "s", "d", "a", "y">>,
      <<"F", "r", "i", "d", "a", "y">>,
      <<"S", "a", "t", "u", "r", "d", "a", "y">>,
      <<"S", "u", "n", "d", "a", "y">>>>

DigitChars == <<"0", "1", "2", "3", "4", "5", "6", "7", "8", "9">>
IsDigit(c) == \E n \in 1..Len(DigitChars) : DigitChars[n] = c
DigitValue(c) == (CHOOSE n \in 1..Len(DigitChars) : DigitChars[n] = c) - 1

\* %Y, %m, %d: zero-padded decimal of w digits.
RECURSIVE Padded(_, _)
Padded(n, w) ==
    IF w = 0 THEN <<>> ELSE Padded(n \div 10, w - 1) \o <<DigitChars[(n % 10) + 1]>>

RECURSIVE Number(_)
Number(s) ==
    IF s = <<>> THEN 0 ELSE Number(SubSeq(s, 1, Len(s) - 1)) * 10 + DigitValue(s[Len(s)])

\* selected_date.strftime("%Y-%m-%d (%A)")
Strftime(dt) ==
    Padded(dt.year, 4) \o <<"-">> \o Padded(dt.month, 2) \o <<"-">> \o Padded(dt.day, 2)
        \o <<" ", "(">> \o WeekdayNames[Weekday(dt) + 1] \o <<")">>

\* Whether strptime(s, "%Y-%m-%d (%A)") parses s: ten characters of date, then a
\* weekday name in parentheses (any weekday name: strptime does not compare it
\* with the date), and the date exists.  Only the zero-padded form is modelled,
\* which is the form strftime writes.
Parses(s) ==
    /\ Len(s) >= 14
    /\ \A i \in {1, 2, 3, 4, 6, 7, 9, 10} : IsDigit(s[i])
    /\ s[5] = "-" /\ s[8] = "-" /\ s[11] = " " /\ s[12] = "(" /\ s[Len(s)] = ")"
    /\ \E n \in 1..Len(WeekdayNames) :
           SubSeq(s, 13, Len(s) - 1) = WeekdayNames[n]
    /\ Number(SubSeq(s, 1, 4)) >= 1
    /\ Number(SubSeq(s, 6, 7)) \in 1..12
    /\ Number(SubSeq(s, 9, 10)) \in 1..DaysInMonth(Number(SubSeq(s, 1, 4)),
                                                    Number(SubSeq(s, 6, 7)))

\* datetime.datetime.strptime(s, "%Y-%m-%d (%A)").date(), for an s that parses.
Strptime(s) ==
    Date(Number(SubSeq(s, 1, 4)), Number(SubSeq(s, 6, 7)), Number(SubSeq(s, 9, 10)))

(***************************************************************************)
(* Python values and JSON values.  Both are records of the same shape: the *)
(* kind k, and the payload of that kind (s: a str's characters, l: a       *)
(* list's items, d: a dict's members, a function from keys).               *)
(***************************************************************************)
NoMembers == [key \in {} |-> 0]

PyNone     == [k |-> "None", s |-> <<>>, l |-> <<>>, d |-> NoMembers]
PyInt      == [k |-> "int",  s |-> <<>>, l |-> <<>>, d |-> NoMembers]
PyStr(x)   == [k |-> "str",  s |-> x,    l |-> <<>>, d |-> NoMembers]
PyList(xs) == [k |-> "list", s |-> <<>>, l |-> xs,   d |-> NoMembers]
PyDict(m)  == [k |-> "dict", s |-> <<>>, l |-> <<>>, d |-> m]

JNull       == [k |-> "null",   s |-> <<>>, l |-> <<>>, d |-> NoMembers]
JNumber     == [k |-> "number", s |-> <<>>, l |-> <<>>, d |-> NoMembers]
JString(x)  == [k |-> "string", s |-> x,    l |-> <<>>, d |-> NoMembers]
JArray(xs)  == [k |-> "array",  s |-> <<>>, l |-> xs,   d |-> NoMembers]
JObject(m)  == [k |-> "object", s |-> <<>>, l |-> <<>>, d |-> m]

\* json.load's decoding of a document.
RECURSIVE FromJson(_)
FromJson(j) ==
    CASE j.k = "null"   -> PyNone
      [] j.k = "number" -> PyInt
      [] j.k = "string" -> PyStr(j.s)
      [] j.k = "array"  -> PyList([i \in 1..Len(j.l) |-> FromJson(j.l[i])])
      [] j.k = "object" -> PyDict([key \in DOMAIN j.d |-> FromJson(j.d[key])])

\* json.dump's encoding of a value.
RECURSIVE ToJson(_)
ToJson(v) ==
    CASE v.k = "None" -> JNull
      [] v.k = "int"  -> JNumber
      [] v.k = "str"  -> JString(v.s)
      [] v.k = "list" -> JArray([i \in 1..Len(v.l) |-> ToJson(v.l[i])])
      [] v.k = "dict" -> JObject([key \in DOMAIN v.d |-> ToJson(v.d[key])])

(***************************************************************************)
(* The storage file, load_entries and save_entries.                        *)
(***************************************************************************)
Absent      == [kind |-> "absent",  doc |-> JNull]   \* os.path.exists is False
Invalid     == [kind |-> "invalid", doc |-> JNull]   \* text json.load rejects
JsonFile(j) == [kind |-> "json",    doc |-> j]

Untitled    == <<"U", "n", "t", "i", "t", "l", "e", "d">>
UnknownUser == <<"U", "n", "k", "n", "o", "w", "n", " ", "U", "s", "e", "r">>

\* A back-fill that also replaces an empty stored value (`x or default`).
SetDefaultFalsy(e, key, default) ==
    IF key \in DOMAIN e.d /\ e.d[key] \notin {PyStr(<<>>), PyList(<<>>), PyNone}
    THEN e
    ELSE PyDict([x \in DOMAIN e.d \cup {key} |-> IF x = key THEN default ELSE e.d[x]])

\* dict.setdefault(key, default): sets the key only when the dict lacks it.
SetDefault(e, key, default) ==
    IF key \in DOMAIN e.d
    THEN e
    ELSE PyDict([x \in DOMAIN e.d \cup {key} |-> IF x = key THEN default ELSE e.d[x]])

\* The four setdefault calls of load_entries on one entry.
BackFill(e) ==
    SetDefault(
        SetDefault(
            SetDefault(
                SetDefault(e, "title", PyStr(Untitled)),
                "tags", PyList(<<>>)),
            "username", PyStr(UnknownUser)),
        "image", PyNone)

Returned(v)  == [raised |-> "none", value |-> v]
Raised(exc)  == [raised |-> exc,    value |-> <<>>]

\* A load_entries without the isinstance check: the loop runs over whatever
\* json.load returned.
load_entries_unchecked(f) ==
    IF f.kind \in {"absent", "invalid"} THEN Returned(<<>>)
    ELSE LET loaded == FromJson(f.doc) IN
         IF loaded.k = "list"
         THEN IF \A i \in 1..Len(loaded.l) : loaded.l[i].k = "dict"
              THEN Returned([i \in 1..Len(loaded.l) |-> BackFill(loaded.l[i])])
              ELSE Raised("AttributeError")
         ELSE IF loaded.k \in {"None", "int"} THEN Raised("TypeError")
         ELSE Raised("AttributeError")

\* load_entries() on the file f: what it returns, or the exception it lets
\* through.  Only json.JSONDecodeError is caught; setdefault on an item that is
\* no dict raises AttributeError.
load_entries(f) ==
    IF f.kind = "absent" THEN Returned(<<>>)
    ELSE IF f.kind = "invalid" THEN Returned(<<>>)
    ELSE LET loaded == FromJson(f.doc) IN
         IF loaded.k = "list"
         THEN IF \A i \in 1..Len(loaded.l) : loaded.l[i].k = "dict"
              THEN Returned([i \in 1..Len(loaded.l) |-> BackFill(loaded.l[i])])
              ELSE Raised("AttributeError")
         ELSE Returned(<<>>)

\* A save that writes the newest entry alone.
save_entries_last(es) == JsonFile(ToJson(PyList(SubSeq(es, Len(es), Len(es)))))

\* save_entries(entries): the file's new content.
save_entries(es) == JsonFile(ToJson(PyList(es)))

(***************************************************************************)
(* The search and date filter, and the sidebar loop.                       *)
(***************************************************************************)
\* dict.get(key, default)
Get(e, key, default) == IF key \in DOMAIN e.d THEN e.d[key] ELSE default

\* A search without the lower-casing.
MatchesCaseSensitive(e, q) ==
    \/ Contains(Get(e, "title", PyStr(<<>>)).s, q)
    \/ \E i \in 1..Len(Get(e, "tags", PyList(<<>>)).l) :
           Contains(Get(e, "tags", PyList(<<>>)).l[i].s, q)

\* The search condition of the comprehension: the lower-cased query is in the
\* lower-cased title or in one of the lower-cased tags.
Matches(e, q) ==
    \/ Contains(Lower(Get(e, "title", PyStr(<<>>)).s), Lower(q))
    \/ \E i \in 1..Len(Get(e, "tags", PyList(<<>>)).l) :
           Contains(Lower(Get(e, "tags", PyList(<<>>)).l[i].s), Lower(q))

\* The date condition, for an entry whose date parses.
InRange(e, from, to) ==
    LET day == Ordinal(Strptime(e.d["date"].s)) IN
    Ordinal(from) <= day /\ day <= Ordinal(to)

\* The exception the comprehension raises at entry e, or "none": the date is
\* read only when the search condition holds (`and` is short-circuit).
FilterRaises(e, q) ==
    IF ~Matches(e, q) THEN "none"
    ELSE IF "date" \notin DOMAIN e.d THEN "KeyError"
    ELSE IF ~Parses(e.d["date"].s) THEN "ValueError"
    ELSE "none"

\* filtered_entries = [entry for entry in entries if (search) and (date range)]
FilterEntries(es, q, from, to) ==
    LET bad == {i \in 1..Len(es) : FilterRaises(es[i], q) # "none"} IN
    IF bad # {}
    THEN Raised(FilterRaises(es[CHOOSE i \in bad : \A j \in bad : i <= j], q))
    ELSE Returned(SelectSeq(es, LAMBDA e : Matches(e, q) /\ InRange(e, from, to)))

\* The sidebar loop over reversed(filtered_entries): entry["mood"] and
\* entry["text"] are read before the entry's button is drawn, so the loop stops
\* with KeyError at the first entry that lacks one of them.
SidebarLoop(fs) ==
    LET r   == Reversed(fs)
        bad == {i \in 1..Len(r) : ~({"mood", "text"} \subseteq DOMAIN r[i].d)}
    IN  IF bad = {}
        THEN [raised |-> "none", value |-> r]
        ELSE [raised |-> "KeyError",
              value  |-> SubSeq(r, 1, (CHOOSE i \in bad : \A j \in bad : i <= j) - 1)]

(***************************************************************************)
(* The form.                                                               *)
(***************************************************************************)
\* mood_options: the mood names behind the five radio labels.
MoodTexts ==
    {<<"H", "a", "p", "p", "y">>,
     <<"S", "a", "d">>,
     <<"A", "n", "g", "r", "y">>,
     <<"T", "i", "r", "e", "d">>,
     <<"E", "x", "c", "i", "t", "e", "d">>}

NoUpload  == [name |-> <<>>, data |-> 0]      \* uploaded_image is None
UploadDir ==
    <<"u", "p", "l", "o", "a", "d", "e", "d", "_", "i", "m", "a", "g", "e", "s", "/">>

\* image_path = f"uploaded_images/{uploaded_image.name}"
ImagePath(upload) == UploadDir \o upload.name

\* A write that never happens.
WriteFileSkipped(fs, path, data) == fs

\* open(image_path, "wb").write(uploaded_image.getbuffer())
WriteFile(fs, path, data) ==
    [x \in DOMAIN fs \cup {path} |-> IF x = path THEN data ELSE fs[x]]

\* An entry built without the `or` defaults.
NewEntryAsEntered(t, fd, mood, text, tags, user, path) ==
    PyDict([key \in {"title", "date", "mood", "text", "tags", "username", "image"} |->
        CASE key = "title"    -> PyStr(t)
          [] key = "date"     -> PyStr(fd)
          [] key = "mood"     -> PyStr(mood)
          [] key = "text"     -> PyStr(text)
          [] key = "tags"     -> PyList([i \in 1..Len(tags) |-> PyStr(tags[i])])
          [] key = "username" -> PyStr(user)
          [] key = "image"    -> path])

\* The dict the Save Entry handler builds; `x or default` takes the default
\* when x is the empty str.
NewEntry(t, fd, mood, text, tags, user, path) ==
    PyDict([key \in {"title", "date", "mood", "text", "tags", "username", "image"} |->
        CASE key = "title"    -> PyStr(IF IsTruthy(t) THEN t ELSE Untitled)
          [] key = "date"     -> PyStr(fd)
          [] key = "mood"     -> PyStr(mood)
          [] key = "text"     -> PyStr(text)
          [] key = "tags"     -> PyList([i \in 1..Len(tags) |-> PyStr(tags[i])])
          [] key = "username" -> PyStr(IF IsTruthy(user) THEN user ELSE UnknownUser)
          [] key = "image"    -> path])

\* An insert at the front (entries.insert(0, entry)).
AddEntryFirst(es, e) == <<e>> \o es

\* entries.append(entry)
AddEntry(es, e) == Append(es, e)

(***************************************************************************)
(* The storage files a session may start with.                             *)
(***************************************************************************)
Fields == {"title", "date", "mood", "text", "tags", "username", "image"}

\* An entry as the application writes it, as a JSON object.
FullObject ==
    [key \in Fields |->
        CASE key = "title"    -> JString(<<"a">>)
          [] key = "date"     -> JString(Strftime(Date(2024, 1, 5)))
          [] key = "mood"     -> JString(<<"S", "a", "d">>)
          [] key = "text"     -> JString(<<"a", "b">>)
          [] key = "tags"     -> JArray(<<JString(<<"B">>)>>)
          [] key = "username" -> JString(<<"b">>)
          [] key = "image"    -> JNull]

Restrict(f, S) == [x \in S |-> f[x]]

\* Stored objects: the full one, the ones an older version of the application
\* wrote (some fields missing), and ones with an empty title or username, or
\* with a date that is not in the application's format.
StoredObjects ==
    {JObject(Restrict(FullObject, Fields \ {key})) : key \in Fields}
    \cup {JObject(Restrict(FullObject, S)) :
             S \in {Fields, {"date", "mood", "text"}, {"title", "date", "mood", "text"}}}
    \cup {JObject([FullObject EXCEPT !["title"] = JString(<<>>)]),
          JObject([FullObject EXCEPT !["username"] = JString(<<>>)]),
          JObject([FullObject EXCEPT !["date"] =
                      JString(SubSeq(Strftime(Date(2024, 1, 5)), 1, 10))])}

RECURSIVE SeqsUpTo(_, _)
SeqsUpTo(S, n) ==
    IF n = 0 THEN {<<>>}
    ELSE SeqsUpTo(S, n - 1) \cup
         {Append(q, x) : q \in {p \in SeqsUpTo(S, n - 1) : Len(p) = n - 1}, x \in S}

\* The storage files of Init: none, text that is not JSON, a JSON document that
\* is no list, a list of stored objects, and a list holding an item that is no
\* object.
InitialFiles ==
    {Absent, Invalid}
    \cup {JsonFile(j) : j \in {JNull, JNumber, JString(<<"a">>), JObject(FullObject)}}
    \cup {JsonFile(JArray(q)) : q \in SeqsUpTo(StoredObjects, MaxStored)}
    \cup {JsonFile(JArray(<<JObject(FullObject), JNumber>>))}

NoDate   == Date(0, 0, 0)
NoImages == [path \in {} |-> 0]

(***************************************************************************)
(* The script.  Streamlit runs it from the top, in a fresh namespace, on   *)
(* every interaction; an uncaught exception ends the run where it is       *)
(* raised.                                                                 *)
(***************************************************************************)
\* The script's globals before the run assigns them.
FormUnset(sd, fd, m, t, u, up, x, ti, tl, b) ==
    /\ sd = NoDate /\ fd = <<>> /\ m = <<>> /\ t = <<>> /\ u = <<>>
    /\ up = NoUpload /\ x = <<>> /\ ti = <<>> /\ tl = <<>> /\ b = FALSE

FilterUnset(q, from, to, fs, sb) ==
    /\ q = <<>> /\ from = NoDate /\ to = NoDate /\ fs = <<>> /\ sb = <<>>

Init ==
    /\ file \in InitialFiles
    /\ images = NoImages
    /\ pc = "idle"
    /\ error = "none"
    /\ entries = <<>>
    /\ FormUnset(selected_date, formatted_date, mood_text, title, username,
                 uploaded_image, diary_text, tags_input, tags_list, button)
    /\ image_path = PyNone
    /\ FilterUnset(search_query, start_date, end_date, filtered_entries, sidebar)

\* Line 35, when load_entries lets an exception through: the run ends there.
LoadFails ==
    /\ pc = "idle"
    /\ load_entries(file).raised # "none"
    /\ error' = load_entries(file).raised
    /\ pc' = "done"
    /\ UNCHANGED <<store, entries, form, image_path, filter>>

\* Lines 35-86: entries = load_entries(), then the form's widgets are read and
\* formatted_date and tags_list computed from them.  The Save Entry button is
\* offered while the store is below the model's bound.
ScriptTopWith(DateSet, MoodSet, TitleSet, UserSet, UploadSet, TextSet, TagSet) ==
    LET loaded == load_entries(file) IN
    /\ pc = "idle"
    /\ loaded.raised = "none"
    /\ entries' = loaded.value
    /\ \E d \in DateSet, ti \in TagSet :
        /\ selected_date' = d
        /\ formatted_date' = Strftime(d)
        /\ tags_input' = ti
        /\ tags_list' = ParseTags(ti)
    /\ \E m \in MoodSet, t \in TitleSet, u \in UserSet, up \in UploadSet,
          x \in TextSet, b \in BOOLEAN :
        /\ b => Len(loaded.value) < MaxEntries
        /\ mood_text' = m
        /\ title' = t
        /\ username' = u
        /\ uploaded_image' = up
        /\ diary_text' = x
        /\ button' = b
        /\ pc' = IF b THEN "save" ELSE "filter"
    /\ UNCHANGED <<store, error, image_path, filter>>

\* Lines 104-110: the Save Entry button was pressed; the uploaded image, if any,
\* is written under uploaded_images/.
WriteImage ==
    /\ pc = "save"
    /\ IF uploaded_image # NoUpload
       THEN /\ image_path' = PyStr(ImagePath(uploaded_image))
            /\ images' = WriteFile(images, ImagePath(uploaded_image), uploaded_image.data)
       ELSE /\ image_path' = PyNone
            /\ images' = images
    /\ pc' = "append"
    /\ UNCHANGED <<file, error, entries, form, filter>>

\* Lines 112-122: the entry is built, appended and the whole list saved.
AppendEntry ==
    /\ pc = "append"
    /\ entries' = AddEntry(entries, NewEntry(title, formatted_date, mood_text, diary_text,
                                            tags_list, username, image_path))
    /\ file' = save_entries(entries')
    /\ pc' = "filter"
    /\ UNCHANGED <<images, error, form, image_path, filter>>

\* Lines 159-172: the sidebar's search box and date range are read and
\* filtered_entries computed.
FilterStepWith(QuerySet, RangeSet) ==
    /\ pc = "filter"
    /\ \E q \in QuerySet, r \in RangeSet :
        LET result == FilterEntries(entries, q, r[1], r[2]) IN
        /\ search_query' = q
        /\ start_date' = r[1]
        /\ end_date' = r[2]
        /\ filtered_entries' = result.value
        /\ error' = result.raised
        /\ pc' = IF result.raised = "none" THEN "sidebar" ELSE "done"
    /\ UNCHANGED <<store, entries, form, image_path, sidebar>>

\* Lines 175-199: one preview button per filtered entry, newest first.
SidebarStep ==
    LET drawn == SidebarLoop(filtered_entries) IN
    /\ pc = "sidebar"
    /\ sidebar' = drawn.value
    /\ error' = drawn.raised
    /\ pc' = "done"
    /\ UNCHANGED <<store, entries, form, image_path, search_query, start_date,
                   end_date, filtered_entries>>

\* The run is over: the namespace of the script is dropped, the files stay.
EndRun ==
    /\ pc = "done"
    /\ pc' = "idle"
    /\ error' = "none"
    /\ entries' = <<>>
    /\ FormUnset(selected_date', formatted_date', mood_text', title', username',
                 uploaded_image', diary_text', tags_input', tags_list', button')
    /\ image_path' = PyNone
    /\ FilterUnset(search_query', start_date', end_date', filtered_entries', sidebar')
    /\ UNCHANGED store

(***************************************************************************)
(* The session: every field of the form is varied, with one search and one *)
(* date range in the sidebar.                                              *)
(***************************************************************************)
Happy == <<"H", "a", "p", "p", "y">>

Dates     == {Date(2024, 1, 1), Date(2024, 1, 10)}
Titles    == {<<>>, <<"A", "b">>}
Usernames == {<<>>, <<"b">>}
Texts     == {<<"a", "b">>}
TagInputs == {<<>>, <<"a", ",", " ", ",", " ", "B">>}
Uploads   == {NoUpload, [name |-> <<"a", ".", "p", "n", "g">>, data |-> 1], [name |-> <<"b", ".", "j", "p", "g">>, data |-> 2]}
Queries   == {<<>>, <<"a">>, <<"B">>}
DateRanges ==
    {<<Date(2024, 1, 2), Date(2024, 1, 6)>>,
     <<Date(2023, 12, 31), Date(2024, 1, 10)>>,
     <<Date(2024, 1, 10), Date(2024, 1, 10)>>}

ScriptTop ==
    ScriptTopWith({Date(2024, 1, 10)}, {Happy}, Titles, Usernames, Uploads, Texts,
                  {<<"a", ",", " ", ",", " ", "B">>})

FilterStep == FilterStepWith({<<>>}, {<<Date(2023, 12, 31), Date(2024, 1, 10)>>})

Next ==
    \/ LoadFails
    \/ ScriptTop
    \/ WriteImage
    \/ AppendEntry
    \/ FilterStep
    \/ SidebarStep
    \/ EndRun

Spec == Init /\ [][Next]_vars

(***************************************************************************)
(* The same session with the sidebar varied: every search and date range,  *)
(* over entries of different dates, titles and tags.                       *)
(***************************************************************************)
FormTop ==
    ScriptTopWith(Dates, {Happy}, Titles, {<<>>}, {NoUpload}, Texts, TagInputs)

SidebarFilter == FilterStepWith(Queries, DateRanges)

NextSidebar ==
    \/ LoadFails
    \/ FormTop
    \/ WriteImage
    \/ AppendEntry
    \/ SidebarFilter
    \/ SidebarStep
    \/ EndRun

SpecSidebar == Init /\ [][NextSidebar]_vars

(***************************************************************************)
(* Tag parsing on its own: line 86 applied to every tags input of up to    *)
(* MaxTagInput characters.                                                 *)
(***************************************************************************)
TagAlphabet == {"a", "B", ",", " ", "\t"}

TagsInit ==
    /\ file = Absent
    /\ images = NoImages
    /\ pc = "tags"
    /\ error = "none"
    /\ entries = <<>>
    /\ tags_input \in SeqsUpTo(TagAlphabet, MaxTagInput)
    /\ FormUnset(selected_date, formatted_date, mood_text, title, username,
                 uploaded_image, diary_text, <<>>, tags_list, button)
    /\ image_path = PyNone
    /\ FilterUnset(search_query, start_date, end_date, filtered_entries, sidebar)

\* Line 86.
TagsStep ==
    /\ pc = "tags"
    /\ tags_list' = ParseTags(tags_input)
    /\ pc' = "parsed"
    /\ UNCHANGED <<store, error, entries, selected_date, formatted_date, mood_text,
                   title, username, uploaded_image, diary_text, tags_input, button,
                   image_path, filter>>

SpecTags == TagsInit /\ [][TagsStep]_vars

(***************************************************************************)
(* The search on its own: lines 159-199 over one stored entry, for every   *)
(* title and tag of up to MaxWord characters and every query of up to      *)
(* MaxQuery characters.  The entry's text, mood and username hold the      *)
(* letters the queries are made of.                                        *)
(***************************************************************************)
SearchAlphabet == {"a", "A", "b"}

SearchEntry(t, tags) ==
    NewEntry(t, Strftime(Date(2024, 1, 5)), <<"S", "a", "d">>, <<"a", "b">>, tags, <<"A", "b">>, PyNone)

SearchInit ==
    /\ file = Absent
    /\ images = NoImages
    /\ pc = "filter"
    /\ error = "none"
    /\ \E t \in SeqsUpTo(SearchAlphabet, MaxWord),
          tags \in SeqsUpTo(SeqsUpTo(SearchAlphabet, MaxWord), 1) :
           entries = <<SearchEntry(t, tags)>>
    /\ FormUnset(selected_date, formatted_date, mood_text, title, username,
                 uploaded_image, diary_text, tags_input, tags_list, button)
    /\ image_path = PyNone
    /\ FilterUnset(search_query, start_date, end_date, filtered_entries, sidebar)

SearchFilter ==
    FilterStepWith(SeqsUpTo(SearchAlphabet, MaxQuery),
                   {<<Date(2023, 12, 31), Date(2024, 1, 10)>>})

NextSearch ==
    \/ SearchFilter
    \/ SidebarStep

SpecSearch == SearchInit /\ [][NextSearch]_vars

(***************************************************************************)
(* Properties.                                                             *)
(***************************************************************************)
\* The entries the storage file holds, as stored.
Stored(f) == IF f.kind = "json" /\ f.doc.k = "array" THEN f.doc.l ELSE <<>>

\* The run has executed load_entries and has not appended to its result.
JustLoaded == pc = "save" \/ pc = "append" \/ (pc = "filter" /\ ~button)

\* The run has executed the Save Entry handler.
JustSaved == pc = "filter" /\ button

SixFields == {"title", "date", "mood", "text", "tags", "username"}

\* C1: every entry load_entries returns for a storage file that is a list of
\* objects has the six fields title, date, mood, text, tags and username, and
\* so has every entry of the file a save has written.
C1_SixFieldsPresent ==
    /\ JustLoaded => \A i \in 1..Len(entries) : SixFields \subseteq DOMAIN entries[i].d
    /\ JustSaved  => \A i \in 1..Len(Stored(file)) :
                         SixFields \subseteq DOMAIN Stored(file)[i].d

BackFilled == {"title", "tags", "username", "image"}

DefaultOf(key) ==
    CASE key = "title"    -> PyStr(Untitled)
      [] key = "tags"     -> PyList(<<>>)
      [] key = "username" -> PyStr(UnknownUser)
      [] key = "image"    -> PyNone

\* C2: for a storage file that is a list of objects, load_entries returns as
\* many entries in the same order; each has the stored object's fields with the
\* stored values, and title, tags, username and image with the defaults
\* "Untitled", [], "Unknown User" and None where the object lacks them.
C2_LoadBackFills ==
    (JustLoaded /\ file.kind = "json" /\ file.doc.k = "array") =>
        /\ Len(entries) = Len(Stored(file))
        /\ \A i \in 1..Len(entries) :
            /\ DOMAIN entries[i].d = DOMAIN Stored(file)[i].d \cup BackFilled
            /\ \A key \in DOMAIN Stored(file)[i].d :
                   ToJson(entries[i].d[key]) = Stored(file)[i].d[key]
            /\ \A key \in BackFilled \ DOMAIN Stored(file)[i].d :
                   entries[i].d[key] = DefaultOf(key)

C2_Witness ==
    /\ JustLoaded
    /\ Len(entries) = 1
    /\ DOMAIN Stored(file)[1].d = {"date", "mood", "text"}
    /\ entries[1].d["title"].s = Untitled

Kept(old, new) ==
    /\ Len(old) <= Len(new)
    /\ \A i \in 1..Len(old) :
        /\ new[i].k = old[i].k
        /\ \A key \in DOMAIN old[i].d :
               key \in DOMAIN new[i].d /\ new[i].d[key] = old[i].d[key]

C6_EmptyInputsDefault ==
    JustSaved =>
        LET e == Stored(file)[Len(Stored(file))].d IN
        /\ e["title"] = JString(IF title = <<>> THEN Untitled ELSE title)
        /\ e["username"] = JString(IF username = <<>> THEN UnknownUser ELSE username)

C6_Witness ==
    /\ JustSaved
    /\ title = <<>>
    /\ username = <<>>
    /\ Stored(file)[Len(Stored(file))].d["title"] = JString(Untitled)
    /\ Stored(file)[Len(Stored(file))].d["username"] = JString(UnknownUser)

\* C10: the image of an upload is in uploaded_images/<upload name> before the
\* step that appends and persists the entry holding that path; every stored
\* image path names a written file; a save without an upload stores None and
\* writes no file; and no image file is ever removed.
C10_ImageBeforeEntry ==
    [][/\ pc = "append" =>
            LET e == Stored(file')[Len(Stored(file'))].d IN
            IF uploaded_image = NoUpload
            THEN e["image"] = JNull
            ELSE /\ e["image"] = JString(UploadDir \o uploaded_image.name)
                 /\ e["image"].s \in DOMAIN images
                 /\ images[e["image"].s] = uploaded_image.data
       /\ (pc = "save" /\ uploaded_image = NoUpload) => images' = images
       /\ pc # "save" => images' = images
       /\ DOMAIN images \subseteq DOMAIN images'
       /\ \A i \in 1..Len(Stored(file')) :
              ("image" \in DOMAIN Stored(file')[i].d
                   /\ Stored(file')[i].d["image"].k = "string")
                  => Stored(file')[i].d["image"].s \in DOMAIN images']_vars

C10_Witness ==
    /\ JustSaved
    /\ uploaded_image # NoUpload
    /\ Stored(file)[Len(Stored(file))].d["image"] = JString(ImagePath(uploaded_image))
    /\ ImagePath(uploaded_image) \in DOMAIN images

(***************************************************************************)
(* Tag parsing, stated on the positions of the input.                      *)
(***************************************************************************)
Min(S) == CHOOSE x \in S : \A y \in S : x <= y
Max(S) == CHOOSE x \in S : \A y \in S : y <= x

\* The places that bound a piece: before the input, each comma, after the input.
Cuts(s) == {0, Len(s) + 1} \cup {i \in 1..Len(s) : s[i] = ","}

\* The positions of the piece after cut p that hold no whitespace.
Ink(s, p) ==
    {i \in (p + 1)..(Min({c \in Cuts(s) : c > p}) - 1) : s[i] \notin Whitespace}

\* The cuts whose piece is not empty once trimmed.
KeptCuts(s) == {p \in Cuts(s) \ {Len(s) + 1} : Ink(s, p) # {}}

TagExample  == 
    <<"T", "r", "a", "v", "e", "l", ",", " ", ",", " ",
      "W", "o", "r", "k", ",", "H", "e", "a", "l", "t", "h", " ">>
TagExpected ==
    <<<<"T", "r", "a", "v", "e", "l">>,
      <<"W", "o", "r", "k">>,
      <<"H", "e", "a", "l", "t", "h">>>>

\* C7: the parsed tags are the comma-separated pieces of the input, trimmed,
\* without the pieces that are empty once trimmed, in input order, duplicates
\* kept; no tag is empty or starts or ends with whitespace; and
\* "Travel, , Work,Health " gives ["Travel", "Work", "Health"].
C7_TagParsing ==
    /\ pc = "parsed" =>
        /\ Len(tags_list) = Cardinality(KeptCuts(tags_input))
        /\ \A p \in KeptCuts(tags_input) :
               tags_list[Cardinality({c \in KeptCuts(tags_input) : c <= p})] =
                   SubSeq(tags_input, Min(Ink(tags_input, p)), Max(Ink(tags_input, p)))
        /\ \A i \in 1..Len(tags_list) :
            /\ tags_list[i] # <<>>
            /\ tags_list[i][1] \notin Whitespace
            /\ tags_list[i][Len(tags_list[i])] \notin Whitespace
    /\ ParseTags(TagExample) = TagExpected

C7_Witness ==
    /\ pc = "parsed"
    /\ tags_input = <<" ", "a", ",">>
    /\ tags_list = <<<<"a">>>>

(***************************************************************************)
(* The search, stated on the letters of the query.                         *)
(***************************************************************************)
\* The same letter, in either case.
SameLetter(c, d) ==
    \/ c = d
    \/ \E n \in 1..Len(UpperLetters) : {c, d} = {UpperLetters[n], LowerLetters[n]}

\* q occurs in s, letter case ignored.
Occurs(q, s) ==
    \E k \in 0..(Len(s) - Len(q)) : \A j \in 1..Len(q) : SameLetter(q[j], s[k + j])

SearchHit(e, q) ==
    \/ Occurs(q, e.d["title"].s)
    \/ \E i \in 1..Len(e.d["tags"].l) : Occurs(q, e.d["tags"].l[i].s)

\* C8: an entry passes the search exactly when the query occurs, letter case
\* ignored, in its title or in one of its tags; the empty query passes every
\* entry, and a query found only in the text, mood or username passes none.
C8_SearchMatch ==
    pc \in {"sidebar", "done"} =>
        /\ filtered_entries = (IF SearchHit(entries[1], search_query) THEN entries ELSE <<>>)
        /\ search_query = <<>> => filtered_entries = entries

C8_Witness ==
    /\ pc = "sidebar"
    /\ search_query = <<"a">>
    /\ entries[1].d["title"].s = <<"b">>
    /\ entries[1].d["tags"].l = <<PyStr(<<"A">>)>>
    /\ filtered_entries = entries

C8_TextOnlyWitness ==
    /\ pc = "sidebar"
    /\ search_query = <<"a">>
    /\ entries[1].d["title"].s = <<"b">>
    /\ entries[1].d["tags"].l = <<>>
    /\ Contains(Lower(entries[1].d["text"].s), Lower(search_query))
    /\ filtered_entries = <<>>

(***************************************************************************)
(* The sidebar list.                                                       *)
(***************************************************************************)
DateLE(a, b) ==
    \/ a.year < b.year
    \/ a.year = b.year /\ a.month < b.month
    \/ a.year = b.year /\ a.month = b.month /\ a.day <= b.day

\* The entry has a date in the application's format, within the range.
DatedWithin(e, from, to) ==
    /\ "date" \in DOMAIN e.d
    /\ Parses(e.d["date"].s)
    /\ DateLE(from, Strptime(e.d["date"].s))
    /\ DateLE(Strptime(e.d["date"].s), to)

\* The entries that pass the search and the date range, newest first.
Listing ==
    Reversed(SelectSeq(entries,
        LAMBDA e : SearchHit(e, search_query) /\ DatedWithin(e, start_date, end_date)))

\* C9: the sidebar of a run that has read the search and the date range lists
\* exactly the entries that pass both, in reverse insertion order.
C9_SidebarIsListing == (pc = "done" /\ start_date # NoDate) => sidebar = Listing

\* The same, for the runs no exception ended.
SidebarOfCompletedRun == (pc = "done" /\ error = "none") => sidebar = Listing

SidebarWitness ==
    /\ pc = "done"
    /\ error = "none"
    /\ Len(entries) = 2
    /\ Len(sidebar) = 1
    /\ search_query # <<>>

\* Entries dated 2024-01-01, 2024-01-05 and 2024-01-10 under the range
\* [2024-01-02, 2024-01-06]: only the second passes.
DateExample ==
    LET e(dt) == NewEntry(<<>>, Strftime(dt), Happy, <<>>, <<>>, <<>>, PyNone) IN
    FilterEntries(<<e(Date(2024, 1, 1)), e(Date(2024, 1, 5)), e(Date(2024, 1, 10))>>,
                  <<>>, Date(2024, 1, 2), Date(2024, 1, 6)).value
        = <<e(Date(2024, 1, 5))>>

====
